---- MODULE Spec2Model ----
(***************************************************************************)
(* react-use-validation: the useValidation hook as a state machine.        *)
(*                                                                         *)
(* The repository holds two generations of the hook:                       *)
(*   "index"  src/src/index.tsx, lines 134-275 (valid / invalid views)     *)
(*   "part"   src/unnamed/part_000 (isValid / isInvalid functions)         *)
(* The variable impl fixes which one a behaviour runs.                     *)
(*                                                                         *)
(* One step of the model is one run-to-completion piece of the hook:       *)
(* construction (Init: the first render), the first commit (FirstTick),    *)
(* a later render (Refresh), the effects of that render (Tick), or a call  *)
(* of validate made by the host (ValidateAll, ValidateRule): from an event *)
(* handler between renders, or from an effect of the host that runs after  *)
(* a render and before the effects of the hook (a layout effect, an effect *)
(* of a child component).  ValidateAndSet is the handler of the README     *)
(* quick start, validate(name, v) followed by setState(v), together with   *)
(* the render it causes.                                                   *)
(*                                                                         *)
(* setResults(prev => ...) enqueues an updater; React applies the updaters *)
(* of one component in the order they were enqueued, each to the result of *)
(* the one before.  The variable results is the state with every enqueued  *)
(* updater applied, i.e. the value the next render reads.                  *)
(***************************************************************************)
EXTENDS Integers, Sequences, FiniteSets, TLC

VARIABLES
    impl,                \* which generation of the hook runs
    optionsInternal,     \* { validateOnInit, validateOnChange }
    rules,               \* the registry passed to the latest render
    rulesRef,            \* rulesRef.current
    results,             \* the useState value (Result Store)
    memoizedRuleDepsRef, \* memoizedRuleDepsRef.current (the baseline)
    memoResults,         \* the results the memoized views / callbacks were built from
    op,                  \* the step just taken
    ret,                 \* what that step returned (or that it threw)
    calls,               \* the rule keys whose validation function that step invoked, in order
    writes,              \* the rule keys whose updater replaced the store in that step
    steps,               \* the renders and validate calls made since the mount
    pending              \* what the latest render left for the commit to do

vars == <<impl, optionsInternal, rules, rulesRef, results, memoizedRuleDepsRef,
          memoResults, op, ret, calls, writes, steps, pending>>

----------------------------------------------------------------------------
(* Bounds of the model *)

\* renders and validate calls the host makes after the hook is mounted
MaxSteps == 2

----------------------------------------------------------------------------
(* JavaScript values.  A string is modelled by its length, an array (a     *)
(* composite state such as [password, confirmPassword]) by its identity    *)
(* (ref) and its length.                                                   *)

JsValue(t, r, n) == [type |-> t, ref |-> r, v |-> n]

undefined == JsValue("undefined", 0, 0)
JsTrue    == JsValue("boolean", 0, 1)
JsFalse   == JsValue("boolean", 0, 0)
Str(n)    == JsValue("string", 0, n)
Num(n)    == JsValue("number", 0, n)
Arr(r, n) == JsValue("array", r, n)

\* an exception leaving the function (TypeError)
Thrown == JsValue("throw", 0, 0)

\* the states a host passes as RuleState
\* the primitive states of the host: nothing yet, "" and a non-empty string
Primitives == {undefined, Str(0), Str(1)}

\* the composite states of the host: an empty array, a non-empty one, and a
\* second array with the contents of the non-empty one
Composites == {Arr(1, 0), Arr(1, 1), Arr(2, 1)}

RuleState == Primitives \cup Composites

\* Object.is / === on these values: primitives by value, objects by identity
ObjectIs(x, y) == x = y

\* mutant: equality of identity instead of structure
dequalByIdentity(foo, bar) == foo = bar

\* dequal(foo, bar): structural equality
dequal(foo, bar) == foo.type = bar.type /\ foo.v = bar.v

\* Boolean(x)
Boolean(x) ==
    CASE x.type = "undefined" -> JsFalse
      [] x.type = "boolean"   -> x
      [] x.type = "number"    -> IF x.v = 0 THEN JsFalse ELSE JsTrue
      [] x.type = "string"    -> IF x.v = 0 THEN JsFalse ELSE JsTrue
      [] OTHER                -> JsTrue

\* truthiness as a TLA+ boolean
Truthy(x) == Boolean(x) = JsTrue

----------------------------------------------------------------------------
(* Rules *)

\* rule names, in the key order of the host's object literal
RuleOrder == <<"a", "b">>
RuleNames == {RuleOrder[i] : i \in 1..Len(RuleOrder)}

\* ruleKey === undefined
NoKey == "undefined"

\* a registry entry without a validation function (rules[k][1] is undefined)
NoRule == "none"

\* validation functions:  "length": s => s.length    "empty": s => !s
RuleFns == {"length", "empty"}

\* rule(state): the raw return value, or Thrown when reading .length of undefined
ApplyRule(rule, state) ==
    IF rule = "empty" THEN (IF Truthy(state) THEN JsFalse ELSE JsTrue)
    ELSE IF state.type = "undefined" THEN Thrown
    ELSE Num(state.v)

\* the states the host keeps under a rule name: the first rule validates a
\* primitive (or missing) value, the others a composite
StatesOf(k) ==
    IF k = RuleOrder[1]
    THEN Primitives
    ELSE Composites

\* the entries the host registers under a rule name
RulesOf(k) ==
    IF k = RuleOrder[1]
    THEN [state : StatesOf(k), rule : {"length"}]
         \cup [state : {undefined, Str(1)}, rule : {"empty"}]
         \cup [state : {Str(1)}, rule : {NoRule}]
    ELSE [state : StatesOf(k), rule : {"length"}]

\* every registry over the rule names
Registries ==
    UNION {{reg \in [D -> UNION {RulesOf(k) : k \in D}] :
               \A k \in D : reg[k] \in RulesOf(k)} : D \in SUBSET RuleNames}

\* Object.keys(o) for an object keyed by rule names
ObjectKeys(o) == SelectSeq(RuleOrder, LAMBDA k : k \in DOMAIN o)

\* o[k], undefined for a missing key
Get(o, k) == IF k \in DOMAIN o THEN o[k] ELSE undefined

----------------------------------------------------------------------------
(* validateRule *)

\* what a call hands back: the value returned (or Thrown), the store with the
\* enqueued updaters applied, the validation functions invoked and the keys
\* whose updater replaced the store object
Outcome(r, store, called, written) ==
    [ret |-> r, store |-> store, calls |-> called, writes |-> written]

\* mutant: the updater builds a new object on every call
UpdaterNoDedup(prev, ruleKey, isValid) ==
    [store  |-> [k \in DOMAIN prev \cup {ruleKey} |->
                    IF k = ruleKey THEN isValid ELSE prev[k]],
     writes |-> <<ruleKey>>]

\* mutant: the updater does not spread prev into the new object
UpdaterNoSpread(prev, ruleKey, isValid) ==
    IF Get(prev, ruleKey) = isValid
    THEN [store |-> prev, writes |-> <<>>]
    ELSE [store  |-> [k \in {ruleKey} |-> isValid],
          writes |-> <<ruleKey>>]

\* the updater passed to setResultsCallback, applied to prev
Updater(prev, ruleKey, isValid) ==
    IF Get(prev, ruleKey) = isValid
    THEN [store |-> prev, writes |-> <<>>]
    ELSE [store  |-> [k \in DOMAIN prev \cup {ruleKey} |->
                         IF k = ruleKey THEN isValid ELSE prev[k]],
          writes |-> <<ruleKey>>]

\* if (setResultsCallback) setResultsCallback(prev => ...); return isValid
SetAndReturn(store, ruleKey, isValid, setResultsCallback) ==
    IF setResultsCallback
    THEN Outcome(isValid, Updater(store, ruleKey, isValid).store, <<ruleKey>>,
                 Updater(store, ruleKey, isValid).writes)
    ELSE Outcome(isValid, store, <<ruleKey>>, <<>>)

\* mutant: a missing validation function counts as a pass
NoRuleResultTrue(v) == JsTrue

\* what validateRule returns when no validation function is registered
NoRuleResult(v) == IF v = "part" THEN JsFalse ELSE undefined

\* mutant: an exception of the validation function is stored as a failure
validateRuleCatch(v, store, ruleKey, rule, state, setResultsCallback) ==
    IF rule = NoRule
    THEN Outcome(NoRuleResult(v), store, <<>>, <<>>)
    ELSE SetAndReturn(store, ruleKey,
                      IF ApplyRule(rule, state) = Thrown THEN JsFalse
                      ELSE Boolean(ApplyRule(rule, state)),
                      setResultsCallback)

validateRule(v, store, ruleKey, rule, state, setResultsCallback) ==
    IF rule = NoRule
    THEN Outcome(NoRuleResult(v), store, <<>>, <<>>)
    ELSE IF ApplyRule(rule, state) = Thrown
         THEN Outcome(Thrown, store, <<ruleKey>>, <<>>)
         ELSE SetAndReturn(store, ruleKey, Boolean(ApplyRule(rule, state)),
                           setResultsCallback)

----------------------------------------------------------------------------
(* useState initial value *)

\* the validation functions the initializer invokes, in key order
InitialCalls(v, reg, validateOnInit) ==
    IF validateOnInit
    THEN SelectSeq(ObjectKeys(reg), LAMBDA k :
            validateRule(v, <<>>, k, reg[k].rule, reg[k].state, FALSE).calls # <<>>)
    ELSE <<>>

\* mutant: the initializer validates whatever validateOnInit says
InitialResultsEager(v, reg, validateOnInit) ==
    [k \in DOMAIN reg |-> validateRule(v, <<>>, k, reg[k].rule, reg[k].state, FALSE).ret]

\* mutant: the initializer never validates
InitialResultsLazy(v, reg, validateOnInit) == [k \in DOMAIN reg |-> undefined]

InitialResults(v, reg, validateOnInit) ==
    [k \in DOMAIN reg |->
        IF validateOnInit
        THEN validateRule(v, <<>>, k, reg[k].rule, reg[k].state, FALSE).ret
        ELSE undefined]

\* construction completes only when no validation function throws
Constructs(v, reg, validateOnInit) ==
    \A k \in DOMAIN reg : InitialResults(v, reg, validateOnInit)[k] # Thrown

----------------------------------------------------------------------------
(* validate *)

\* mutant: the updates that follow the first one of a call are dropped
CollectFirst(acc, r) ==
    [ret    |-> r.ret,
     rets   |-> IF r.ret = Thrown THEN acc.rets ELSE Append(acc.rets, r.ret),
     store  |-> IF acc.writes = <<>> THEN r.store ELSE acc.store,
     calls  |-> acc.calls \o r.calls,
     writes |-> acc.writes \o r.writes]

\* one more element of Object.keys(...).map(k => validateRule(...))
Collect(acc, r) ==
    [ret    |-> r.ret,
     rets   |-> IF r.ret = Thrown THEN acc.rets ELSE Append(acc.rets, r.ret),
     store  |-> r.store,
     calls  |-> acc.calls \o r.calls,
     writes |-> acc.writes \o r.writes]

\* mutant: the map stops at the first rule that fails
RECURSIVE MapValidateRuleShort(_, _, _, _)
MapValidateRuleShort(v, ref, keys, acc) ==
    IF keys = <<>> \/ acc.ret = Thrown \/ (acc.rets # <<>> /\ ~Truthy(acc.ret)) THEN acc
    ELSE MapValidateRuleShort(v, ref, Tail(keys),
            Collect(acc, validateRule(v, acc.store, Head(keys), ref[Head(keys)].rule,
                                      ref[Head(keys)].state, TRUE)))

\* Object.keys(rulesRef.current).map(k => validateRule(...)): acc collects the
\* returned values; an exception ends the map
RECURSIVE MapValidateRule(_, _, _, _)
MapValidateRule(v, ref, keys, acc) ==
    IF keys = <<>> \/ acc.ret = Thrown THEN acc
    ELSE MapValidateRule(v, ref, Tail(keys),
            Collect(acc, validateRule(v, acc.store, Head(keys), ref[Head(keys)].rule,
                                      ref[Head(keys)].state, TRUE)))

\* array.every(Boolean)
EveryBoolean(rets) ==
    IF \A i \in 1..Len(rets) : Truthy(rets[i]) THEN JsTrue ELSE JsFalse

\* .every(Boolean) over the mapped values, unless the map threw
Every(m) ==
    Outcome(IF m.ret = Thrown THEN Thrown ELSE EveryBoolean(m.rets),
            m.store, m.calls, m.writes)

\* mutant: the state argument is ignored
validateRegistered(v, store, ref, ruleKey, state) ==
    IF ruleKey = NoKey
    THEN Every(MapValidateRule(v, ref, ObjectKeys(ref),
                  [ret |-> undefined, rets |-> <<>>, store |-> store,
                   calls |-> <<>>, writes |-> <<>>]))
    ELSE IF ruleKey \notin DOMAIN ref
         THEN Outcome(Thrown, store, <<>>, <<>>)
         ELSE validateRule(v, store, ruleKey, ref[ruleKey].rule, ref[ruleKey].state, TRUE)

validate(v, store, ref, ruleKey, state) ==
    IF ruleKey = NoKey
    THEN Every(MapValidateRule(v, ref, ObjectKeys(ref),
                  [ret |-> undefined, rets |-> <<>>, store |-> store,
                   calls |-> <<>>, writes |-> <<>>]))
    ELSE IF ruleKey \notin DOMAIN ref
         \* rulesRef.current[ruleKey] is undefined: reading [1] of it throws
         THEN Outcome(Thrown, store, <<>>, <<>>)
         ELSE validateRule(v, store, ruleKey, ref[ruleKey].rule,
                           IF state = undefined THEN ref[ruleKey].state ELSE state,
                           TRUE)

----------------------------------------------------------------------------
(* the change-detection effect *)

\* areHookInputsEqual of React: Object.is over the common prefix
HookInputsEqual(nextDeps, prevDeps) ==
    \A i \in 1..Len(nextDeps) :
        i <= Len(prevDeps) => ObjectIs(nextDeps[i], prevDeps[i])

\* the values of o in key order
ValuesIn(o, keys) == [i \in 1..Len(keys) |-> o[keys[i]]]

\* newDeps
NewDeps(reg) == [k \in DOMAIN reg |-> reg[k].state]

\* Object.values(rules).map(v => v[0])
EffectDeps(reg) == ValuesIn(NewDeps(reg), ObjectKeys(reg))

\* rulesWithChangedDeps
RulesWithChangedDeps(memo, newDeps) ==
    SelectSeq(ObjectKeys(newDeps), LAMBDA k : ~dequal(Get(memo, k), newDeps[k]))

\* one more element of rulesWithChangedDeps.forEach(...)
Sequel(acc, r) ==
    Outcome(IF r.ret = Thrown THEN Thrown ELSE undefined, r.store,
            acc.calls \o r.calls, acc.writes \o r.writes)

\* rulesWithChangedDeps.forEach(k => validate(k, newDeps[k])): an exception ends it
RECURSIVE ForEachValidate(_, _, _, _, _)
ForEachValidate(v, ref, newDeps, keys, acc) ==
    IF keys = <<>> \/ acc.ret = Thrown THEN acc
    ELSE ForEachValidate(v, ref, newDeps, Tail(keys),
            Sequel(acc, validate(v, acc.store, ref, Head(keys), newDeps[Head(keys)])))

\* mutant: the changed rules are validated whatever validateOnChange says
CompareAndValidateAlways(v, store, ref, newDeps, memo, validateOnChange, changed) ==
    [memo    |-> IF Len(changed) > 0 THEN newDeps ELSE memo,
     out     |-> ForEachValidate(v, ref, newDeps, changed,
                                 Outcome(undefined, store, <<>>, <<>>)),
     changed |-> changed]

\* the effect once the baseline is set
CompareAndValidate(v, store, ref, newDeps, memo, validateOnChange, changed) ==
    [memo    |-> IF Len(changed) > 0 THEN newDeps ELSE memo,
     out     |-> IF validateOnChange
                 THEN ForEachValidate(v, ref, newDeps, changed,
                                      Outcome(undefined, store, <<>>, <<>>))
                 ELSE Outcome(undefined, store, <<>>, <<>>),
     changed |-> changed]

\* mutant: the first run compares against an empty baseline
ChangeEffectNoBaseline(v, store, ref, reg, memo, validateOnChange) ==
    CompareAndValidate(v, store, ref, NewDeps(reg), memo.current, validateOnChange,
                       RulesWithChangedDeps(memo.current, NewDeps(reg)))

\* the effect body: the baseline it leaves and the validations it ran
ChangeEffect(v, store, ref, reg, memo, validateOnChange) ==
    IF ~memo.defined
    THEN [memo |-> NewDeps(reg), out |-> Outcome(undefined, store, <<>>, <<>>),
          changed |-> <<>>]
    ELSE CompareAndValidate(v, store, ref, NewDeps(reg), memo.current, validateOnChange,
                            RulesWithChangedDeps(memo.current, NewDeps(reg)))

----------------------------------------------------------------------------
(* result views *)

\* a rule name as a JavaScript string value
KeyValue(k) == JsValue("key", 0, CHOOSE i \in 1..Len(RuleOrder) : RuleOrder[i] = k)

\* [...Object.keys(results), ...Object.values(results)]
DepsOf(res, keys) == [i \in 1..Len(keys) |-> KeyValue(keys[i])] \o ValuesIn(res, keys)

ViewDeps(res) == DepsOf(res, ObjectKeys(res))

\* useMemo / useCallback: the results the memoized value is built from after a render
Memoize(res, memo) ==
    IF HookInputsEqual(ViewDeps(res), ViewDeps(memo)) THEN memo ELSE res

\* the valid view
validView(res) == [k \in DOMAIN res |-> res[k] = JsTrue]

\* mutant: the invalid view repeats the test of the valid view
invalidViewCopied(res) == [k \in DOMAIN res |-> res[k] = JsTrue]

\* the invalid view
invalidView(res) == [k \in DOMAIN res |-> res[k] = JsFalse]

\* isValid(ruleKey)
isValid(res, ruleKey) ==
    IF ruleKey = NoKey
    THEN \A k \in DOMAIN res : Truthy(res[k])
    ELSE Get(res, ruleKey) = JsTrue

\* isInvalid(ruleKey)
isInvalid(res, ruleKey) ==
    IF ruleKey = NoKey
    THEN \E k \in DOMAIN res : ~Truthy(res[k])
    ELSE Get(res, ruleKey) = JsFalse

----------------------------------------------------------------------------
(* the state machine *)

Impls == {"index", "part"}

\* mutant: validate keeps reading the registry of the first render
rulesRefStale(v, ref, reg) == ref

\* rulesRef.current once the effects of a render with the registry reg have
\* run: assigned during the render ("part") or by the effect declared before
\* the change-detection effect ("index")
rulesRefCurrent(v, ref, reg) == reg

\* rulesRef.current right after a render with the registry reg, before its
\* effects: "part" assigns it while rendering, "index" has not assigned it yet
rulesRefRendered(v, ref, reg) == IF v = "part" THEN reg ELSE ref

\* whether React schedules the change-detection effect of a render with reg
Scheduled(reg, prev) ==
    IF HookInputsEqual(EffectDeps(reg), EffectDeps(prev)) THEN "skip" ELSE "run"

Options == [validateOnInit : BOOLEAN, validateOnChange : BOOLEAN]

\* a step: its kind; for a validate call the number of arguments passed, the
\* rule key and the state argument; for a tick its rulesWithChangedDeps
Step(kind, argc, key, state, changed) ==
    [kind |-> kind, argc |-> argc, key |-> key, state |-> state, changed |-> changed]

\* construction: the first render of the hook
Init ==
    /\ impl \in Impls
    /\ optionsInternal \in Options
    /\ rules \in Registries
    /\ Constructs(impl, rules, optionsInternal.validateOnInit)
    /\ rulesRef = rules
    /\ results = InitialResults(impl, rules, optionsInternal.validateOnInit)
    /\ memoizedRuleDepsRef = [defined |-> FALSE, current |-> <<>>]
    /\ memoResults = results
    /\ op = Step("init", 0, NoKey, undefined, <<>>)
    /\ ret = undefined
    /\ calls = InitialCalls(impl, rules, optionsInternal.validateOnInit)
    /\ writes = <<>>
    /\ steps = 0
    /\ pending = "run"

\* an exception thrown inside an effect (of the hook, or of the host while the
\* effects of the hook are pending) unmounts the component
Mounted == ~(ret = Thrown /\ (op.kind = "tick" \/ pending # "idle"))

\* the effects of the first render
FirstTick ==
    /\ ~memoizedRuleDepsRef.defined
    /\ \E eff \in {ChangeEffect(impl, results, rulesRefCurrent(impl, rulesRef, rules),
                                rules, memoizedRuleDepsRef,
                                optionsInternal.validateOnChange)} :
          /\ rulesRef' = rulesRefCurrent(impl, rulesRef, rules)
          /\ memoizedRuleDepsRef' = [defined |-> TRUE, current |-> eff.memo]
          /\ results' = eff.out.store
          /\ ret' = eff.out.ret
          /\ calls' = eff.out.calls
          /\ writes' = eff.out.writes
          /\ op' = Step("tick", 0, NoKey, undefined, eff.changed)
    /\ pending' = "idle"
    /\ UNCHANGED <<impl, optionsInternal, rules, memoResults, steps>>

\* a later render with the registry reg
Render(reg) ==
    /\ pending = "idle"
    /\ Mounted
    /\ steps < MaxSteps
    /\ steps' = steps + 1
    /\ rules' = reg
    /\ rulesRef' = rulesRefRendered(impl, rulesRef, reg)
    /\ memoResults' = Memoize(results, memoResults)
    /\ pending' = Scheduled(reg, rules)
    /\ op' = Step("render", 0, NoKey, undefined, <<>>)
    /\ ret' = undefined
    /\ calls' = <<>>
    /\ writes' = <<>>
    /\ UNCHANGED <<impl, optionsInternal, results, memoizedRuleDepsRef>>

\* the effects of a later render
Tick ==
    /\ memoizedRuleDepsRef.defined
    /\ pending # "idle"
    /\ Mounted
    /\ pending' = "idle"
    /\ rulesRef' = rulesRefCurrent(impl, rulesRef, rules)
    /\ IF pending = "skip"
       THEN \* no dependency changed: the effect is skipped
            /\ ret' = undefined
            /\ calls' = <<>>
            /\ writes' = <<>>
            /\ op' = Step("tick", 0, NoKey, undefined, <<>>)
            /\ UNCHANGED <<memoizedRuleDepsRef, results>>
       ELSE \E eff \in {ChangeEffect(impl, results, rulesRefCurrent(impl, rulesRef, rules),
                                     rules, memoizedRuleDepsRef,
                                     optionsInternal.validateOnChange)} :
            /\ memoizedRuleDepsRef' = [defined |-> TRUE, current |-> eff.memo]
            /\ results' = eff.out.store
            /\ ret' = eff.out.ret
            /\ calls' = eff.out.calls
            /\ writes' = eff.out.writes
            /\ op' = Step("tick", 0, NoKey, undefined, eff.changed)
    /\ UNCHANGED <<impl, optionsInternal, rules, memoResults, steps>>

\* the host calls validate(ruleKey, state); the calls it makes from an effect
\* of its own, while the effects of the hook are pending, pass no state
Call(argc, ruleKey, state) ==
    /\ memoizedRuleDepsRef.defined
    /\ Mounted
    /\ pending = "idle" \/ argc < 2
    /\ steps < MaxSteps
    /\ steps' = steps + 1
    /\ \E r \in {validate(impl, results, rulesRef, ruleKey, state)} :
          /\ results' = r.store
          /\ ret' = r.ret
          /\ calls' = r.calls
          /\ writes' = r.writes
          /\ op' = Step("validate", argc, ruleKey, state, <<>>)
    /\ UNCHANGED <<impl, optionsInternal, rules, rulesRef, memoizedRuleDepsRef,
                   memoResults, pending>>

\* an event handler of the host validates a rule against a new value and then
\* sets its state to that value:  validate(ruleKey, state); setState(state).
\* The render that follows passes the registry with that value as the state of
\* the rule.
CallAndSet(ruleKey, state) ==
    /\ memoizedRuleDepsRef.defined
    /\ pending = "idle"
    /\ Mounted
    /\ steps < MaxSteps
    /\ ruleKey \in DOMAIN rules
    /\ [rules EXCEPT ![ruleKey].state = state] \in Registries
    /\ steps' = steps + 1
    /\ \E r \in {validate(impl, results, rulesRef, ruleKey, state)} :
          /\ r.ret # Thrown
          /\ results' = r.store
          /\ ret' = r.ret
          /\ calls' = r.calls
          /\ writes' = r.writes
          /\ memoResults' = Memoize(r.store, memoResults)
    /\ rules' = [rules EXCEPT ![ruleKey].state = state]
    /\ rulesRef' = rulesRefRendered(impl, rulesRef, rules')
    /\ pending' = Scheduled(rules', rules)
    /\ op' = Step("render", 2, ruleKey, state, <<>>)
    /\ UNCHANGED <<impl, optionsInternal, memoizedRuleDepsRef>>

\* validate()
ValidateAll == Call(0, NoKey, undefined)

\* validate(ruleKey)
ValidateRule == \E k \in RuleNames : Call(1, k, undefined)

\* validate(ruleKey, state)
ValidateRuleState ==
    \E k \in RuleNames : \E x \in StatesOf(k) \cup {undefined} : Call(2, k, x)

\* the host renders again with a registry of its choice
Refresh == \E reg \in Registries : Render(reg)

\* validate(ruleKey, state) followed by a render with that state
ValidateAndSet ==
    \E k \in RuleNames : \E x \in StatesOf(k) \cup {undefined} : CallAndSet(k, x)

Next ==
    \/ FirstTick \/ Refresh \/ Tick
    \/ ValidateAll \/ ValidateRule \/ ValidateRuleState \/ ValidateAndSet

Spec == Init /\ [][Next]_vars

\* a host that never passes a state to validate
NextImplicit ==
    \/ FirstTick \/ Refresh \/ Tick
    \/ ValidateAll \/ ValidateRule

SpecImplicit == Init /\ [][NextImplicit]_vars

----------------------------------------------------------------------------
(* Properties *)

\* the elements of a sequence
Range(seq) == {seq[i] : i \in 1..Len(seq)}

\* the outcome of evaluating a validation function on an input
Verdict(rule, state) ==
    IF ApplyRule(rule, state) = Thrown THEN Thrown ELSE Boolean(ApplyRule(rule, state))

\* the outcome of the rule registered under k on its registered state
Registered(ref, k) == Verdict(ref[k].rule, ref[k].state)

AfterConstruction == op.kind = "init"
AfterFirstTick    == op.kind = "tick" /\ steps = 0
AfterValidateAll  == op.kind = "validate" /\ op.argc = 0
AfterValidateRule == op.kind = "validate" /\ op.argc > 0

\* neither the valid nor the invalid reading of rule k is true
Unvalidated(k) ==
    IF impl = "index"
    THEN k \in DOMAIN memoResults =>
            ~validView(memoResults)[k] /\ ~invalidView(memoResults)[k]
    ELSE ~isValid(memoResults, k) /\ ~isInvalid(memoResults, k)

\* C1: right after construction with validateOnInit = false every rule of the
\* registry is stored as unvalidated, neither its valid nor its invalid reading
\* is true, and no validation function has been invoked.
C1_UnvalidatedAfterConstruction ==
    (AfterConstruction /\ ~optionsInternal.validateOnInit) =>
        /\ DOMAIN results = DOMAIN rules
        /\ \A k \in DOMAIN rules : results[k] = undefined /\ Unvalidated(k)
        /\ calls = <<>>

W_C1 ==
    /\ AfterConstruction /\ ~optionsInternal.validateOnInit
    /\ DOMAIN rules = RuleNames
    /\ Registered(rules, "a") = JsTrue /\ Registered(rules, "b") = JsFalse

\* C2: right after construction with validateOnInit = true the stored result of
\* every rule that has a validation function is that function applied to the
\* rule's initial state, coerced to a boolean; none of them is unvalidated.
C2_ValidatedAfterConstruction ==
    (AfterConstruction /\ optionsInternal.validateOnInit) =>
        /\ DOMAIN results = DOMAIN rules
        /\ \A k \in DOMAIN rules : rules[k].rule # NoRule =>
              /\ results[k] = Registered(rules, k)
              /\ results[k] \in {JsTrue, JsFalse}
              /\ k \in Range(calls)

W_C2 ==
    /\ AfterConstruction /\ optionsInternal.validateOnInit
    /\ DOMAIN rules = RuleNames
    /\ results["a"] = JsFalse /\ results["b"] = JsTrue

\* C3: in every reachable state no rule name is read as valid and as invalid at
\* once, by the valid / invalid views or by isValid(name) / isInvalid(name).
C3_TriStateExclusive ==
    IF impl = "index"
    THEN \A k \in DOMAIN memoResults :
            ~(validView(memoResults)[k] /\ invalidView(memoResults)[k])
    ELSE \A k \in RuleNames :
            ~(isValid(memoResults, k) /\ isInvalid(memoResults, k))

W_C3 ==
    /\ op.kind = "tick" /\ steps = MaxSteps
    /\ DOMAIN memoResults = RuleNames
    /\ memoResults["a"] = JsTrue /\ memoResults["b"] = JsFalse
    /\ impl = "index"
    /\ validView(memoResults)["a"] /\ invalidView(memoResults)["b"]

\* C4: validate() evaluates every rule of the current registry that has a
\* validation function, each once and on its own registered state, stores the
\* outcome of each of them (a failing rule does not stop the others), and
\* returns true exactly when every rule's outcome is true.
C4_ValidateAll ==
    (AfterValidateAll /\ ret # Thrown) =>
        /\ calls = SelectSeq(ObjectKeys(rulesRef), LAMBDA k : rulesRef[k].rule # NoRule)
        /\ \A k \in DOMAIN rulesRef : rulesRef[k].rule # NoRule =>
              k \in DOMAIN results /\ results[k] = Registered(rulesRef, k)
        /\ ret \in {JsTrue, JsFalse}
        /\ (ret = JsTrue) <=>
              \A k \in DOMAIN rulesRef :
                  rulesRef[k].rule # NoRule /\ Registered(rulesRef, k) = JsTrue

W_C4 ==
    /\ AfterValidateAll /\ ret = JsFalse
    /\ calls = <<"a", "b">> /\ writes = <<"a", "b">>
    /\ results["a"] = JsFalse /\ results["b"] = JsTrue

\* C5 as claimed: validate(name, x) returns and stores the outcome of the rule
\* on x for every explicit input x, undefined included.
C5_ExplicitInputAlwaysUsed ==
    (op.kind = "validate" /\ op.argc = 2 /\ op.key \in DOMAIN rulesRef
        /\ rulesRef[op.key].rule # NoRule) =>
        /\ ret = Verdict(rulesRef[op.key].rule, op.state)
        /\ ret # Thrown => results[op.key] = ret

\* C5 amended: validate(name) evaluates the rule on its registered state, and
\* validate(name, x) evaluates it on x for every x other than undefined
\* (validate(name, undefined) is validate(name)); the value returned is the
\* outcome coerced to a boolean, and it becomes the rule's stored result.
C5_ValidateRule ==
    (AfterValidateRule /\ op.key \in DOMAIN rulesRef /\ rulesRef[op.key].rule # NoRule) =>
        /\ ret = Verdict(rulesRef[op.key].rule,
                         IF op.argc = 2 /\ op.state # undefined
                         THEN op.state ELSE rulesRef[op.key].state)
        /\ ret # Thrown =>
              /\ ret \in {JsTrue, JsFalse}
              /\ op.key \in DOMAIN results /\ results[op.key] = ret

W_C5 ==
    /\ AfterValidateRule /\ op.argc = 2 /\ op.key = "a" /\ op.state = Str(1)
    /\ "a" \in DOMAIN rulesRef
    /\ rulesRef["a"] = [state |-> Str(0), rule |-> "length"]
    /\ ret = JsTrue /\ results["a"] = JsTrue

\* C6: validate called with a rule name that is not in the current registry
\* raises no exception, yields no result and writes nothing to the store.
C6_UnknownNameSilent ==
    (AfterValidateRule /\ op.key \notin DOMAIN rulesRef) =>
        ret = undefined /\ writes = <<>>

\* C7 as claimed: validate() returns the AND of the outcomes of the rules that
\* have a validation function; a rule without one is left out of it.
C7_NoResultExcluded ==
    (AfterValidateAll /\ ret # Thrown) =>
        ((ret = JsTrue) <=>
            \A k \in DOMAIN rulesRef :
                rulesRef[k].rule # NoRule => Registered(rulesRef, k) = JsTrue)

\* C7 amended: in validate() a rule without a validation function is neither
\* evaluated nor written, and it counts as a failure: validate() never returns
\* true while the registry holds such a rule.
C7_NoResultFails ==
    (AfterValidateAll /\ \E k \in DOMAIN rulesRef : rulesRef[k].rule = NoRule) =>
        /\ ret \in {JsFalse, Thrown}
        /\ \A k \in DOMAIN rulesRef : rulesRef[k].rule = NoRule =>
              k \notin Range(calls) /\ k \notin Range(writes)

W_C7 ==
    /\ AfterValidateAll /\ ret = JsFalse
    /\ DOMAIN rulesRef = RuleNames
    /\ rulesRef["a"].rule = NoRule
    /\ calls = <<"b">> /\ results["b"] = JsTrue

\* C8: a step that evaluates a rule whose outcome equals the stored result
\* leaves the store object as it was; the store object is replaced only for a
\* rule whose outcome differs from what was stored.
C8_DedupWrites ==
    [][ op'.kind \in {"validate", "tick"} =>
          /\ \A k \in Range(writes') : Get(results, k) # Get(results', k)
          /\ \A k \in Range(calls') :
                Get(results, k) # Get(results', k) => k \in Range(writes')
          /\ writes' = <<>> => results' = results ]_vars

W_C8 ==
    /\ AfterValidateRule /\ op.argc = 1 /\ op.key = "a"
    /\ calls = <<"a">> /\ writes = <<>>
    /\ ret = JsTrue /\ Get(results, "a") = JsTrue

\* C9: a second validate(name, x) made right after a first one with the same x
\* returns what the first returned and leaves the store object as it was.
C9_ValidateIdempotent ==
    [][ (op.kind = "validate" /\ op.argc = 2 /\ op' = op /\ steps' = steps + 1) =>
          /\ ret' = ret
          /\ results' = results
          /\ writes' = <<>> ]_vars

W_C9 ==
    /\ op.kind = "validate" /\ op.argc = 2 /\ op.key = "a" /\ op.state = Str(1)
    /\ steps = 2
    /\ ~optionsInternal.validateOnInit
    /\ "a" \in DOMAIN rulesRef
    /\ rulesRef["a"] = [state |-> Str(0), rule |-> "length"]
    /\ ret = JsTrue /\ results["a"] = JsTrue /\ writes = <<>>

\* C10: the first tick only stores the baseline: it reports no changed rule,
\* invokes no validation function and writes nothing, whatever validateOnChange
\* and the initial states are; with validateOnInit = false every result is
\* still unvalidated after it.
C10_FirstTickBaseline ==
    AfterFirstTick =>
        /\ op.changed = <<>> /\ calls = <<>> /\ writes = <<>>
        /\ memoizedRuleDepsRef = [defined |-> TRUE, current |-> NewDeps(rules)]
        /\ results = InitialResults(impl, rules, optionsInternal.validateOnInit)
        /\ ~optionsInternal.validateOnInit =>
              \A k \in DOMAIN rules : results[k] = undefined /\ Unvalidated(k)

W_C10 ==
    /\ AfterFirstTick
    /\ optionsInternal.validateOnChange /\ ~optionsInternal.validateOnInit
    /\ DOMAIN rules = RuleNames
    /\ Registered(rules, "a") = JsTrue /\ Registered(rules, "b") = JsTrue
    /\ results["a"] = undefined /\ results["b"] = undefined

----------------------------------------------------------------------------
(* Properties of the change-detection effect *)

\* the effects of a render made after the mount
TickStep == op'.kind = "tick" /\ memoizedRuleDepsRef.defined

\* the baseline the effect of a step compares against
Baseline == memoizedRuleDepsRef.current

\* two values of the same type with the same contents, whatever their identity
SameContents(x, y) == x.type = y.type /\ x.v = y.v

\* how many times k occurs in seq
Count(k, seq) == Cardinality({i \in 1..Len(seq) : seq[i] = k})

\* C11: on a tick where the state of a rule is structurally equal to its
\* baseline entry (a new array with the same contents included), the rule is
\* not reported as changed, its validation function is not invoked and its
\* stored result stays as it was.
C11_StructuralEquality ==
    [][ TickStep =>
          \A k \in DOMAIN rules' \cap DOMAIN Baseline :
              SameContents(Baseline[k], rules'[k].state) =>
                  /\ k \notin Range(op'.changed)
                  /\ k \notin Range(calls')
                  /\ Get(results', k) = Get(results, k) ]_vars

W_C11 ==
    /\ op.kind = "tick" /\ steps > 0
    /\ optionsInternal.validateOnChange /\ optionsInternal.validateOnInit
    /\ DOMAIN rules = RuleNames /\ DOMAIN Baseline = RuleNames
    /\ rules["b"].state = Arr(2, 1) /\ Baseline["b"] = Arr(1, 1)
    /\ op.changed = <<>> /\ calls = <<>>
    /\ Get(results, "b") = JsTrue

\* C12: with validateOnChange = true, a tick after the first (that completes)
\* invokes the validation function of every rule whose state differs
\* structurally from its baseline entry exactly once, and of no rule whose
\* state is structurally unchanged.
C12_ChangedValidatedOnce ==
    [][ (TickStep /\ optionsInternal.validateOnChange /\ ret' # Thrown) =>
          \A k \in DOMAIN rules' \cap DOMAIN Baseline :
              rules'[k].rule # NoRule =>
                  Count(k, calls') =
                      IF SameContents(Baseline[k], rules'[k].state) THEN 0 ELSE 1 ]_vars

\* C13: an automatic validation evaluates the validation function of the
\* registry passed to that render on the state passed to that render: at the
\* end of the tick the stored result of every rule it evaluated is that
\* function applied to that state, and when the tick completes every changed
\* rule that has a validation function was evaluated.
C13_AutomaticUsesNewSnapshot ==
    op.kind = "tick" =>
        /\ \A i \in 1..Len(calls) : (i < Len(calls) \/ ret # Thrown) =>
              /\ calls[i] \in DOMAIN rules /\ calls[i] \in DOMAIN results
              /\ results[calls[i]] = Registered(rules, calls[i])
        /\ (optionsInternal.validateOnChange /\ ret # Thrown) =>
              calls = SelectSeq(op.changed, LAMBDA k : rules[k].rule # NoRule)

W_C13 ==
    /\ op.kind = "tick" /\ steps = 2
    /\ optionsInternal.validateOnChange /\ optionsInternal.validateOnInit
    /\ DOMAIN rules = RuleNames
    /\ rules["a"] = [state |-> Str(1), rule |-> "empty"]
    /\ op.changed = <<"a", "b">> /\ calls = <<"a", "b">> /\ writes = <<"a", "b">>
    /\ results["a"] = JsFalse /\ results["b"] = JsTrue

\* C14: with validateOnChange = false no tick changes the store or invokes a
\* validation function, whatever states changed; after construction the store
\* changes only in a step that is an explicit validate call.
C14_NoAutomaticValidation ==
    [][ ~optionsInternal.validateOnChange =>
          /\ op'.kind = "tick" => results' = results /\ calls' = <<>> /\ writes' = <<>>
          /\ results' # results =>
                \/ op'.kind = "validate"
                \/ op'.kind = "render" /\ op'.argc = 2 ]_vars

W_C14 ==
    /\ op.kind = "tick" /\ steps > 0
    /\ ~optionsInternal.validateOnChange /\ ~optionsInternal.validateOnInit
    /\ op.changed = <<"a", "b">>
    /\ DOMAIN rules = RuleNames
    /\ Registered(rules, "a") = JsTrue /\ Registered(rules, "b") = JsFalse
    /\ DOMAIN results = RuleNames
    /\ results["a"] = undefined /\ results["b"] = undefined
    /\ calls = <<>>

----------------------------------------------------------------------------
(* Properties of validate across renders *)

\* the state a validate call evaluates the rule op.key on
StateValidated ==
    IF op.argc = 2 /\ op.state # undefined THEN op.state ELSE rules[op.key].state

\* C15: validate reads the registry passed to the latest render: a call for
\* one rule returns the outcome of that registry's validation function (on that
\* registry's state unless a state is passed), validate() evaluates the rules
\* of that registry and no other, a name that registry does not hold is
\* evaluated by no validation function, and an automatic validation stores the
\* outcome of that registry's function on that registry's state.
C15_LatestRegistry ==
    /\ (AfterValidateRule /\ op.key \in DOMAIN rules /\ rules[op.key].rule # NoRule) =>
          ret = Verdict(rules[op.key].rule, StateValidated) /\ calls = <<op.key>>
    /\ (AfterValidateRule /\ op.key \notin DOMAIN rules) => calls = <<>>
    /\ (AfterValidateAll /\ ret # Thrown) =>
          /\ calls = SelectSeq(ObjectKeys(rules), LAMBDA k : rules[k].rule # NoRule)
          /\ \A k \in Range(calls) : Get(results, k) = Registered(rules, k)
    /\ op.kind = "tick" =>
          /\ Range(calls) \subseteq DOMAIN rules
          /\ \A i \in 1..Len(calls) : (i < Len(calls) \/ ret # Thrown) =>
                Get(results, calls[i]) = Registered(rules, calls[i])

\* C16: when a validation function throws, the exception leaves validate (the
\* call does not return a boolean), nothing is written for that rule and its
\* stored result stays what it was; it does not become invalid.
C16_ThrowNotRecorded ==
    [][ (op'.kind = "validate" /\ calls' # <<>>
          /\ Registered(rulesRef, calls'[Len(calls')]) = Thrown
          /\ (op'.argc < 2 \/ op'.state = undefined)) =>
          /\ ret' = Thrown
          /\ calls'[Len(calls')] \notin Range(writes')
          /\ Get(results', calls'[Len(calls')]) = Get(results, calls'[Len(calls')]) ]_vars

W_C16 ==
    /\ op.kind = "validate" /\ op.argc = 1 /\ op.key = "a"
    /\ ret = Thrown /\ calls = <<"a">> /\ writes = <<>>
    /\ "a" \in DOMAIN rulesRef /\ rulesRef["a"].state = undefined
    /\ Get(results, "a") = JsTrue

----------------------------------------------------------------------------
(* Properties of isValid() and isInvalid() *)

\* C17: isInvalid() with no rule name returns true exactly when the stored
\* result of at least one rule is invalid; while every rule is unvalidated
\* isValid() and isInvalid() both return false.
C17_IsInvalidAggregate ==
    impl = "part" =>
        /\ isInvalid(memoResults, NoKey) <=>
              \E k \in DOMAIN memoResults : memoResults[k] = JsFalse
        /\ (\A k \in DOMAIN memoResults : memoResults[k] = undefined) =>
              ~isInvalid(memoResults, NoKey)
        /\ (DOMAIN memoResults # {} /\ \A k \in DOMAIN memoResults : memoResults[k] = undefined) =>
              ~isValid(memoResults, NoKey)

\* C18: in a render whose isValid is built from the store as it is, isValid()
\* with no rule name returns true exactly when every rule of the registry
\* passed to that render has the stored result valid, also when that registry
\* has gained or lost rules since the first render.
C18_IsValidAllRules ==
    (impl = "part" /\ op.kind \in {"init", "render"} /\ memoResults = results) =>
        (isValid(memoResults, NoKey) <=>
            \A k \in DOMAIN rules : Get(results, k) = JsTrue)

----------------------------------------------------------------------------
(* Properties of the baseline *)

\* C19: with validateOnChange = true, a rule (with a validation function) that
\* has no baseline entry when it is in the registry of a tick is not reported
\* as changed on that tick and its validation function is not invoked on it.
C19_AddedRuleNotChanged ==
    [][ (TickStep /\ optionsInternal.validateOnChange) =>
          \A k \in DOMAIN rules' \ DOMAIN Baseline :
              rules'[k].rule # NoRule =>
                  k \notin Range(op'.changed) /\ k \notin Range(calls') ]_vars

\* C20: at the end of every tick the baseline holds, for every rule of the
\* current registry, an entry structurally equal to the state of that rule.
C20_BaselineInSync ==
    op.kind = "tick" =>
        \A k \in DOMAIN rules : SameContents(Get(Baseline, k), rules[k].state)

----------------------------------------------------------------------------
(* Properties of the whole hook *)

\* C21: with validateOnInit = true and validateOnChange = true, and a host that
\* never passes a state to validate, at the end of every tick the stored result
\* of every rule of the registry is the outcome of the registry's validation
\* function for that rule on the registry's state for that rule.
C21_ResultsInSync ==
    (/\ op.kind = "tick"
     /\ optionsInternal.validateOnInit /\ optionsInternal.validateOnChange
     /\ ret # Thrown)
    => \A k \in DOMAIN rules :
          rules[k].rule # NoRule => Get(results, k) = Registered(rules, k)

\* C22: a validate call for one rule, with or without a state, changes at most
\* the stored result of that rule: the stored results of the other rules, the
\* remembered states of the change detection and the registry are unchanged.
C22_SingleRuleFrame ==
    [][ (op'.kind = "validate" /\ op'.argc > 0) =>
          /\ DOMAIN results' \subseteq DOMAIN results \cup {op'.key}
          /\ \A k \in DOMAIN results \ {op'.key} :
                k \in DOMAIN results' /\ results'[k] = results[k]
          /\ memoizedRuleDepsRef' = memoizedRuleDepsRef
          /\ rules' = rules /\ rulesRef' = rulesRef ]_vars

W_C22 ==
    /\ op.kind = "validate" /\ op.argc = 2 /\ op.key = "a"
    /\ writes = <<"a">>
    /\ DOMAIN results = RuleNames
    /\ results["a"] = JsFalse /\ results["b"] = JsTrue
    /\ DOMAIN rules = RuleNames /\ DOMAIN Baseline = RuleNames
    /\ Registered(rules, "a") = JsTrue

\* the outcome of the evaluation of rule k made in a step: a tick evaluates the
\* registry of the render it follows, a validate call the registry rulesRef
\* holds, on the state passed to it if there is one
Evaluated(k) ==
    IF op'.kind = "tick" THEN Registered(rulesRef', k)
    ELSE IF op'.argc = 2 /\ op'.state # undefined
         THEN Verdict(rulesRef[k].rule, op'.state)
         ELSE Registered(rulesRef, k)

\* C23: the updates of the store are applied in the order of the evaluations:
\* after every step (a validate call, a handler or a tick) the stored result of
\* each rule the step evaluated is the outcome of that evaluation, and the
\* stored result of every other rule is the one left by the steps before, so
\* the stored result of a rule is always the outcome of its latest evaluation.
C23_LastEvaluationWins ==
    [][ \A k \in RuleNames :
          IF k \in Range(calls') /\ Evaluated(k) # Thrown
          THEN Get(results', k) = Evaluated(k)
          ELSE Get(results', k) = Get(results, k) ]_vars

W_C23 ==
    /\ op.kind = "validate" /\ op.argc = 0 /\ steps = 2
    /\ optionsInternal.validateOnInit /\ ~optionsInternal.validateOnChange
    /\ calls = <<"a", "b">> /\ writes = <<"a">>
    /\ rulesRef = rules /\ DOMAIN results = RuleNames
    /\ results["a"] = JsTrue /\ Registered(rules, "a") = JsTrue
    /\ results["b"] = JsFalse

\* C24: with validateOnChange = true an automatic validation feeds no further
\* one.  A tick that wrote to the store leaves the remembered states equal to
\* the states of the registry; a tick whose registry holds states structurally
\* equal to the remembered ones (rebuilt arrays included), as the render caused
\* by that write supplies, reports no changed rule, invokes no validation
\* function and leaves the store and the remembered states as they were; and
\* a tick writes at most once per rule, and only to rules it found changed.
C24_NoFeedbackLoop ==
    [][ (op'.kind = "tick" /\ optionsInternal.validateOnChange) =>
          /\ writes' # <<>> =>
                /\ DOMAIN memoizedRuleDepsRef'.current = DOMAIN rules'
                /\ \A k \in DOMAIN rules' :
                      memoizedRuleDepsRef'.current[k] = rules'[k].state
          /\ (/\ memoizedRuleDepsRef.defined
               /\ DOMAIN Baseline = DOMAIN rules'
               /\ \A k \in DOMAIN rules' : SameContents(Baseline[k], rules'[k].state))
              => /\ op'.changed = <<>> /\ calls' = <<>> /\ writes' = <<>>
                 /\ results' = results
                 /\ memoizedRuleDepsRef' = memoizedRuleDepsRef
          /\ \A k \in RuleNames :
                /\ Count(k, writes') <= 1
                /\ k \in Range(writes') => k \in Range(op'.changed) ]_vars

W_C24 ==
    /\ op.kind = "tick" /\ steps = 2
    /\ optionsInternal.validateOnChange /\ ~optionsInternal.validateOnInit
    /\ DOMAIN rules = RuleNames /\ DOMAIN Baseline = RuleNames
    /\ Baseline["a"] = rules["a"].state
    /\ Baseline["b"] = Arr(1, 1) /\ rules["b"].state = Arr(2, 1)
    /\ results = [k \in RuleNames |-> IF k = "b" THEN JsTrue ELSE undefined]
    /\ op.changed = <<>> /\ calls = <<>> /\ writes = <<>>

\* the tick that follows a handler  validate(op.key, op.state); setState(op.state)
\* with validateOnChange = true, and completes
HandlerThenTick ==
    /\ op.kind = "render" /\ op.argc = 2
    /\ op'.kind = "tick"
    /\ optionsInternal.validateOnChange
    /\ ret' # Thrown

\* the automatic validation of the rule of the handler recomputes the outcome
\* the explicit call stored and does not write it again: the pair changed the
\* stored result of that rule at most once, and when no other rule is found
\* changed the tick leaves the whole store as it was
SameOutcomeNoWrite ==
    /\ op.key \in Range(calls') => Registered(rules', op.key) = Get(results, op.key)
    /\ Get(results', op.key) = Get(results, op.key)
    /\ op.key \notin Range(writes')
    /\ Len(writes) <= 1
    /\ Range(op'.changed) \subseteq {op.key} => results' = results /\ writes' = <<>>

\* C25 as stated: with validateOnChange = true, after validate(name, v) and a
\* render that passes v as the state of that rule, for every v, the automatic
\* validation of the tick recomputes the same outcome and leaves the store
\* unchanged, so the pair changes the store once or not at all.
C25_ExplicitThenAutomatic ==
    [][ HandlerThenTick => SameOutcomeNoWrite ]_vars

\* C25 amended: the same for every v other than undefined.
C25_ExplicitDefinedThenAutomatic ==
    [][ (HandlerThenTick /\ op.state # undefined) => SameOutcomeNoWrite ]_vars

W_C25 ==
    /\ op.kind = "tick" /\ steps = 1
    /\ optionsInternal.validateOnChange /\ ~optionsInternal.validateOnInit
    /\ "a" \in DOMAIN rules
    /\ rules["a"] = [state |-> Str(0), rule |-> "length"]
    /\ op.changed = <<"a">> /\ calls = <<"a">> /\ writes = <<>>
    /\ Get(results, "a") = JsFalse

\* the value a view gives for rule k (undefined, read as false, for a name the
\* view does not hold)
ValidOf(res, k) ==
    IF impl = "index" THEN k \in DOMAIN res /\ validView(res)[k] ELSE isValid(res, k)

InvalidOf(res, k) ==
    IF impl = "index" THEN k \in DOMAIN res /\ invalidView(res)[k] ELSE isInvalid(res, k)

\* C26: the views a render returns are an exact projection of the store that
\* render read: for every name in the store the valid reading is true exactly
\* when the stored result is true and the invalid reading exactly when it is
\* false, and the memoized views equal the views computed from the store.
C26_ViewsExact ==
    op.kind \in {"init", "render"} =>
        /\ \A k \in DOMAIN results :
              /\ ValidOf(memoResults, k) <=> results[k] = JsTrue
              /\ InvalidOf(memoResults, k) <=> results[k] = JsFalse
        /\ \A k \in RuleNames \cup {NoKey} :
              /\ ValidOf(memoResults, k) <=> ValidOf(results, k)
              /\ InvalidOf(memoResults, k) <=> InvalidOf(results, k)
        /\ impl = "index" =>
              /\ validView(memoResults) = validView(results)
              /\ invalidView(memoResults) = invalidView(results)

====
